---------------------------- MODULE Spec2Model ----------------------------
(***************************************************************************)
(* Structural compaction of a gated BERT encoder (bert/modeling/mixer.py). *)
(* Affine transforms are modelled with exact integer arithmetic: a linear  *)
(* is a record [in, out, weight, hasBias, bias]; weight[i][j] is row i,    *)
(* column j of the out x in matrix, bias is None when hasBias is FALSE     *)
(* (the bias field is then all zero).                                      *)
(***************************************************************************)
EXTENDS Integers, Sequences, FiniteSets, TLC

VARIABLES
    argA,      \* LinearMixer session: the linear first wrapped, LinearMixer(A)
    argB,      \* the `other` of the first merge
    argC,      \* the `other` of the second merge
    argIdx,    \* the `indices` of merge_mask
    fused,     \* the linear the LinearMixer currently wraps (self.linear)
    mstep,     \* position of the session
    gates,     \* the trained snapshot's Feature Masks: mask id -> gate per feature
    model,     \* self.model: the sub-module held by every slot mix() touches
    past_layer_norm,  \* mix(): the normalization the next layer reads as norm0
    layer_id,  \* mix(): index of the next encoder layer of the loop
    pc,        \* mix(): "idle", "loop", "done", "assert_failed" or "raised"
    p_model,   \* the packed model mix() returned last
    run,       \* number of mix() calls made on this CompactorMixer
    args,      \* DistillTrainer: the TrainingArguments handed to the constructor
    trainer,   \* DistillTrainer: the attributes of self, with the student's weights
    state      \* DistillTrainer: TrainerState and the position inside train()/evaluate()

mixerVars == <<argA, argB, argC, argIdx, fused, mstep>>

mixVars == <<gates, model, past_layer_norm, layer_id, pc, p_model, run>>

trainerVars == <<args, trainer, state>>

vars == <<argA, argB, argC, argIdx, fused, mstep,
          gates, model, past_layer_norm, layer_id, pc, p_model, run,
          args, trainer, state>>

----------------------------------------------------------------------------
(* Bounds of the inputs *)

\* largest entry of an input weight or bias of the LinearMixer sessions
MaxVal == 1

\* largest gate value of a Feature Mask (0 drops the feature, 1 keeps it as is)
MaxGate == 2

\* largest number of masks of a snapshot that differ from "keep everything"
MaxPruned == 1

\* number of sampled snapshots in which every mask is pruned or scaled
NumSamples == 8

\* largest number of mix() calls on one CompactorMixer
MaxRuns == 2

\* num_train_epochs of a train() call; the start epochs range over 0..MaxEpoch
MaxEpoch == 2

\* evaluation scores range over 0..MaxScore
MaxScore == 2

\* train() calls made on one DistillTrainer
MaxTrains == 2

----------------------------------------------------------------------------
(* Vectors and matrices *)

RECURSIVE Tup(_, _)
\* the function f on 1..n as a tuple, each entry computed once
Tup(f, n) == IF n = 0 THEN <<>> ELSE Append(Tup(f, n - 1), f[n])

Zero(n) == Tup([i \in 1..n |-> 0], n)

RECURSIVE SumTo(_, _)
SumTo(f, n) == IF n = 0 THEN 0 ELSE f[n] + SumTo(f, n - 1)

\* w @ v for an out x in matrix w and an in-vector v
MatVec(w, v, out, in) ==
    Tup([i \in 1..out |-> SumTo([k \in 1..in |-> w[i][k] * v[k]], in)], out)

\* w2 @ w1 for an out x mid matrix w2 and a mid x in matrix w1
MatMul(w2, w1, out, mid, in) ==
    Tup([i \in 1..out |->
            Tup([j \in 1..in |-> SumTo([k \in 1..mid |-> w2[i][k] * w1[k][j]], mid)], in)],
        out)

\* nn.Linear(in, out, bias) after its weight (and bias) have been copied in
Linear(in, out, weight, hasBias, bias) ==
    [in |-> in, out |-> out,
     weight |-> Tup([i \in 1..out |-> Tup(weight[i], in)], out),
     hasBias |-> hasBias,
     bias |-> IF hasBias THEN Tup(bias, out) ELSE Zero(out)]

\* nn.Linear.forward: y = W x + b, or W x when the bias is None
Apply(lin, x) ==
    LET wx == MatVec(lin.weight, x, lin.out, lin.in)
    IN Tup([i \in 1..lin.out |-> wx[i] + (IF lin.hasBias THEN lin.bias[i] ELSE 0)], lin.out)

----------------------------------------------------------------------------
(* LinearMixer *)

\* merge that adds the wrapped bias without passing it through other.weight
merge_rawbias(self, other) ==
    LET bias == self.hasBias /\ other.hasBias
        new_weight == MatMul(other.weight, self.weight, other.out, other.in, self.in)
        new_bias == [i \in 1..other.out |->
              (IF self.hasBias THEN self.bias[i] ELSE 0)
            + (IF other.hasBias THEN other.bias[i] ELSE 0)]
    IN Linear(self.in, other.out, new_weight, bias, new_bias)

\* LinearMixer.merge(other): self.linear first, then other
merge(self, other) ==
    LET in_features == self.in
        out_features == other.out
        bias == self.hasBias /\ other.hasBias
        new_weight == MatMul(other.weight, self.weight, other.out, other.in, self.in)
        new_bias == [i \in 1..out_features |->
              (IF self.hasBias
                 THEN MatVec(other.weight, self.bias, other.out, other.in)[i]
                 ELSE 0)
            + (IF other.hasBias THEN other.bias[i] ELSE 0)]
    IN Linear(in_features, out_features, new_weight, bias, new_bias)

\* LinearMixer.merge_mask(indices): weight[indices, :] and bias[indices]
merge_mask(self, indices) ==
    LET in_features == self.in
        out_features == Len(indices)
        bias == self.hasBias
    IN Linear(in_features, out_features,
              [r \in 1..out_features |-> self.weight[indices[r]]],
              bias,
              [r \in 1..out_features |-> self.bias[indices[r]]])

----------------------------------------------------------------------------
(* Inputs of the LinearMixer sessions *)

Vectors(n, lo, hi) == [1..n -> lo..hi]

Matrices(out, in, lo, hi) == [1..out -> [1..in -> lo..hi]]

\* every nn.Linear(in, out) with entries in 0..MaxVal, with and without bias
Linears(in, out) ==
    { Linear(in, out, w, TRUE, b) :
        w \in Matrices(out, in, 0, MaxVal), b \in Vectors(out, 0, MaxVal) }
    \cup
    { Linear(in, out, w, FALSE, Zero(out)) : w \in Matrices(out, in, 0, MaxVal) }

\* index tensors: sequences of distinct row positions of an n-row linear
IndexSeqs(n) ==
    { s \in UNION { [1..k -> 1..n] : k \in 0..n } :
        \A p, q \in DOMAIN s : p # q => s[p] # s[q] }

\* the 0/1 matrix that picks the rows at indices, as a bias-free linear
SelectionMatrix(indices, n) ==
    Linear(n, Len(indices),
           [r \in 1..Len(indices) |-> [j \in 1..n |-> IF j = indices[r] THEN 1 ELSE 0]],
           FALSE, Zero(Len(indices)))

\* inputs on which two affine maps of width n are compared: 0, the unit vectors, ...
Probes(n) == Vectors(n, 0, 1)

NoLinear == Linear(0, 0, <<>>, FALSE, <<>>)

----------------------------------------------------------------------------
(* The trained snapshot: architecture, parameters, masks *)

\* model.config of the masked model under compaction
config ==
    [hidden_size |-> 2, num_attention_heads |-> 1,
     intermediate_size |-> 2, num_hidden_layers |-> 2]

Layers == 1..config.num_hidden_layers

\* a fixed sequence of digits from which the snapshot's parameters are read
Digits ==
    <<3, 1, 4, 1, 5, 9, 2, 6, 5, 3, 5, 8, 9, 7, 9, 3, 2, 3, 8, 4, 6, 2, 6, 4, 3, 3, 8,
      3, 2, 7, 9, 5, 0, 2, 8, 8, 4, 1, 9, 7, 1, 6, 9, 3, 9, 9, 3, 7, 5, 1, 0, 5, 8>>

Digit(k) == Digits[(k % Len(Digits)) + 1]

\* a trained affine transform: parameters fixed by the snapshot, generic, of
\* full rank and different for every sub-module c of every layer l
Trained(l, c, in, out) ==
    Linear(in, out,
           [i \in 1..out |-> [j \in 1..in |->
               IF i = j THEN 2 + (Digit(41 * l + 43 * c + 2 * i + j) % 2)
                        ELSE (Digit(41 * l + 43 * c + 2 * i + j) % 3) - 1]],
           TRUE,
           [i \in 1..out |-> (Digit(11 * l + 3 * c + i) % 4) - 1])

\* Mask ids: <<0, "norm2">> is the embedding normalization's mask, <<l, m>> the
\* mask of layer l's norm1, norm2, query (qk), value (vo) or output.dense (ffn)
MaskIds ==
    {<<0, "norm2">>} \cup (Layers \X {"norm1", "norm2", "qk", "vo", "ffn"})

MaskWidth(id) ==
    IF id[2] = "ffn" THEN config.intermediate_size ELSE config.hidden_size

Ones(n) == [i \in 1..n |-> 1]

\* Mask.parse(): the ascending kept positions and their gate values
Mask_parse(g) ==
    LET indices == SelectSeq([i \in 1..Len(g) |-> i], LAMBDA i : g[i] > 0)
    IN [values |-> Tup([r \in 1..Len(indices) |-> g[indices[r]]], Len(indices)),
        indices |-> indices]

\* Compactor.extract(side, indices, values): side "output" keeps the rows (and
\* bias entries) at indices, each times its value; side "input" keeps the
\* columns at indices, each times its value, and the whole bias
Compactor_extract(comp, side, indices, values, scaled) ==
    LET K == Len(indices)
        s == [r \in 1..K |-> IF scaled THEN values[r] ELSE 1]
    IN IF side = "output"
         THEN Linear(comp.in, K,
                     [r \in 1..K |-> [j \in 1..comp.in |-> s[r] * comp.weight[indices[r]][j]]],
                     comp.hasBias,
                     [r \in 1..K |-> s[r] * comp.bias[indices[r]]])
         ELSE Linear(K, comp.out,
                     [i \in 1..comp.out |-> [r \in 1..K |-> comp.weight[i][indices[r]] * s[r]]],
                     comp.hasBias,
                     comp.bias)

\* LinearWithMaskBefore.extract(indices, values): the base transform on the
\* kept input features, each scaled by its gate
LinearWithMaskBefore_extract(lin, indices, values) ==
    Compactor_extract(lin, "input", indices, values, TRUE)

\* parameters of the LayerNormWithCompactor with mask id: layer norm
\* weight/bias, in_comp, out_comp
NormParams(id) ==
    LET l == id[1]
        c == IF id[2] = "norm1" THEN 10 ELSE 20
        H == config.hidden_size
    IN [weight |-> Tup([i \in 1..H |-> 1 + ((i + l + c) % 2)], H),
        bias |-> Tup([i \in 1..H |-> (i + l) % 3], H),
        in_comp |-> Trained(l, c + 1, H, H),
        out_comp |-> Trained(l, c + 2, H, H)]

\* parameters of the wrapped projections of layer l: base transform
\* (extract()) and compactor
ModuleParams(l, name) ==
    LET H == config.hidden_size
        F == config.intermediate_size
    IN CASE name = "query" -> [linear |-> Trained(l, 1, H, H), compactor |-> Trained(l, 2, H, H)]
         [] name = "key" -> [linear |-> Trained(l, 3, H, H), compactor |-> Trained(l, 4, H, H)]
         [] name = "value" -> [linear |-> Trained(l, 5, H, H), compactor |-> Trained(l, 6, H, H)]
         [] name = "attn_dense" -> [linear |-> Trained(l, 7, H, H), compactor |-> Trained(l, 8, H, H)]
         [] name = "inter_dense" -> [linear |-> Trained(l, 9, H, F), compactor |-> NoLinear]
         [] name = "out_dense" -> [linear |-> Trained(l, 12, F, H), compactor |-> NoLinear]
         [] name = "pooler" -> [linear |-> Trained(l, 13, H, H), compactor |-> NoLinear]

\* the snapshot's parameters, stage 0 (embedding, pooler) first, then the layers
StateDict ==
    Tup([k \in 1..(config.num_hidden_layers + 1) |->
            [query |-> ModuleParams(k - 1, "query"),
             key |-> ModuleParams(k - 1, "key"),
             value |-> ModuleParams(k - 1, "value"),
             attn_dense |-> ModuleParams(k - 1, "attn_dense"),
             inter_dense |-> ModuleParams(k - 1, "inter_dense"),
             out_dense |-> ModuleParams(k - 1, "out_dense"),
             pooler |-> ModuleParams(k - 1, "pooler"),
             norm1 |-> NormParams(<<k - 1, "norm1">>),
             norm2 |-> NormParams(<<k - 1, "norm2">>)]],
        config.num_hidden_layers + 1)

\* the LayerNormWithCompactor with mask id
TrainedNorm(id) == StateDict[id[1] + 1][id[2]]

\* the wrapped projection name of layer l
TrainedModule(l, name) == StateDict[l + 1][name]

\* LayerNormWithCompactor.extract(indices): the normalization on the kept features
LayerNormWithCompactor_extract(id, indices) ==
    [size |-> Len(indices),
     weight |-> [r \in 1..Len(indices) |-> TrainedNorm(id).weight[indices[r]]],
     bias |-> [r \in 1..Len(indices) |-> TrainedNorm(id).bias[indices[r]]]]

----------------------------------------------------------------------------
(* self.model: what each slot holds *)

NoNorm == [size |-> 0, weight |-> <<>>, bias |-> <<>>]

NewId == <<-1, "new">>

\* a sub-module: its class, the trained object it is (NewId for one built by
\* mix()), and for a plain nn.Linear / reduced normalization its parameters;
\* the pooler slot carries the identity and parameters of pooler.dense
Module(kind, id, linear, norm) ==
    [kind |-> kind, id |-> id, linear |-> linear, norm |-> norm]

NoModule == Module("None", NewId, NoLinear, NoNorm)

TrainedLayer(l) ==
    [query |-> Module("LinearWithCompactorAfter", <<l, "query">>, NoLinear, NoNorm),
     key |-> Module("LinearWithCompactorAfter", <<l, "key">>, NoLinear, NoNorm),
     value |-> Module("LinearWithCompactorAfter", <<l, "value">>, NoLinear, NoNorm),
     attn_dense |-> Module("LinearWithCompactorBefore", <<l, "attn_dense">>, NoLinear, NoNorm),
     attn_norm |-> Module("LayerNormWithCompactor", <<l, "norm1">>, NoLinear, NoNorm),
     attn_residual |-> NoModule,
     inter_dense |-> Module("Linear", <<l, "inter_dense">>,
                            TrainedModule(l, "inter_dense").linear, NoNorm),
     out_dense |-> Module("LinearWithMaskBefore", <<l, "out_dense">>, NoLinear, NoNorm),
     out_norm |-> Module("LayerNormWithCompactor", <<l, "norm2">>, NoLinear, NoNorm),
     out_residual |-> NoModule]

\* the masked model handed to CompactorMixer, with or without a pooler
TrainedModel(withPooler) ==
    [embeddings_LayerNorm |-> Module("LayerNormWithCompactor", <<0, "norm2">>, NoLinear, NoNorm),
     layer |-> [l \in Layers |-> TrainedLayer(l)],
     pooler |-> IF withPooler
                  THEN Module("BertPooler", <<0, "pooler">>,
                              TrainedModule(0, "pooler").linear, NoNorm)
                  ELSE NoModule]

NoPModel == [per_layer_config |-> <<>>, layer |-> <<>>,
             embeddings_LayerNorm |-> NoModule, pooler |-> NoModule]

----------------------------------------------------------------------------
(* CompactorMixer.mix(): one encoder layer *)

\* norm.out_comp reduced at the kept columns without the gate values
NormOutComp_unscaled(g, id) ==
    Compactor_extract(TrainedNorm(id).out_comp, "input",
                      Mask_parse(g[id]).indices, Mask_parse(g[id]).values, FALSE)

\* norm.out_comp.extract("input", indices, values), norm the normalization with mask id
NormOutComp(g, id) ==
    Compactor_extract(TrainedNorm(id).out_comp, "input",
                      Mask_parse(g[id]).indices, Mask_parse(g[id]).values, TRUE)

\* norm.in_comp.extract("output", indices, values)
NormInComp(g, id) ==
    Compactor_extract(TrainedNorm(id).in_comp, "output",
                      Mask_parse(g[id]).indices, Mask_parse(g[id]).values, TRUE)

\* query: norm0_out_comp, q_module.extract(), q_module.compactor at qk, scaled
MixQuery(g, l, norm0) ==
    LET qk == Mask_parse(g[<<l, "qk">>])
    IN merge(merge(NormOutComp(g, norm0), TrainedModule(l, "query").linear),
             Compactor_extract(TrainedModule(l, "query").compactor, "output",
                               qk.indices, qk.values, TRUE))

\* key built like query: the key compactor's rows scaled by the qk gate values too
MixKey_scaled(g, l, norm0) ==
    LET qk == Mask_parse(g[<<l, "qk">>])
    IN merge(merge(NormOutComp(g, norm0), TrainedModule(l, "key").linear),
             Compactor_extract(TrainedModule(l, "key").compactor, "output",
                               qk.indices, qk.values, TRUE))

\* key: norm0_out_comp, k_module.extract(), k_module.compactor at qk, not scaled
MixKey(g, l, norm0) ==
    LET qk == Mask_parse(g[<<l, "qk">>])
    IN merge(merge(NormOutComp(g, norm0), TrainedModule(l, "key").linear),
             Compactor_extract(TrainedModule(l, "key").compactor, "output",
                               qk.indices, qk.values, FALSE))

\* value: norm0_out_comp, v_module.extract(), v_module.compactor at vo, scaled
MixValue(g, l, norm0) ==
    LET vo == Mask_parse(g[<<l, "vo">>])
    IN merge(merge(NormOutComp(g, norm0), TrainedModule(l, "value").linear),
             Compactor_extract(TrainedModule(l, "value").compactor, "output",
                               vo.indices, vo.values, TRUE))

\* attention output with the compactor's columns scaled by the vo gate values,
\* which the value rows already carry
MixOutput_scaled(g, l) ==
    LET vo == Mask_parse(g[<<l, "vo">>])
    IN merge(merge(Compactor_extract(TrainedModule(l, "attn_dense").compactor, "input",
                                     vo.indices, vo.values, TRUE),
                   TrainedModule(l, "attn_dense").linear),
             NormInComp(g, <<l, "norm1">>))

\* attention output: o_module.compactor columns at vo, o_module.extract(), norm1_in_comp
MixOutput(g, l) ==
    LET vo == Mask_parse(g[<<l, "vo">>])
    IN merge(merge(Compactor_extract(TrainedModule(l, "attn_dense").compactor, "input",
                                     vo.indices, vo.values, FALSE),
                   TrainedModule(l, "attn_dense").linear),
             NormInComp(g, <<l, "norm1">>))

\* w1 without the row selection at the ffn mask
MixW1_unmasked(g, l, w1_module) ==
    merge(NormOutComp(g, <<l, "norm1">>), w1_module)

\* w1: norm1_out_comp, the intermediate dense held by the model, rows at ffn
MixW1(g, l, w1_module) ==
    merge_mask(merge(NormOutComp(g, <<l, "norm1">>), w1_module),
               Mask_parse(g[<<l, "ffn">>]).indices)

\* w2: w2_module.extract(ffn_indices, ffn_values), norm2_in_comp
MixW2(g, l) ==
    LET ffn == Mask_parse(g[<<l, "ffn">>])
    IN merge(LinearWithMaskBefore_extract(TrainedModule(l, "out_dense").linear,
                                          ffn.indices, ffn.values),
             NormInComp(g, <<l, "norm2">>))

\* attention residual: norm0_out_comp merged with norm1_in_comp
MixAttnResidual(g, l, norm0) ==
    merge(NormOutComp(g, norm0), NormInComp(g, <<l, "norm1">>))

\* feed-forward residual: norm1_out_comp merged with norm2_in_comp
MixOutResidual(g, l) ==
    merge(NormOutComp(g, <<l, "norm1">>), NormInComp(g, <<l, "norm2">>))

Plain(linear) == Module("Linear", NewId, linear, NoNorm)

Reduced(g, id) ==
    Module("LayerNorm", NewId, NoLinear,
           LayerNormWithCompactor_extract(id, Mask_parse(g[id]).indices))

\* the loop body without the assignment of the fused key to its slot
MixedLayer_keepkey(g, l, module, norm0) ==
    [query |-> Plain(MixQuery(g, l, norm0)),
     key |-> module.key,
     value |-> Plain(MixValue(g, l, norm0)),
     attn_dense |-> Plain(MixOutput(g, l)),
     attn_norm |-> Reduced(g, module.attn_norm.id),
     attn_residual |-> Plain(MixAttnResidual(g, l, norm0)),
     inter_dense |-> Plain(MixW1(g, l, module.inter_dense.linear)),
     out_dense |-> Plain(MixW2(g, l)),
     out_norm |-> Reduced(g, module.out_norm.id),
     out_residual |-> Plain(MixOutResidual(g, l))]

\* the layer after one pass of the loop body, norm0 the id of past_layer_norm
MixedLayer(g, l, module, norm0) ==
    [query |-> Plain(MixQuery(g, l, norm0)),
     key |-> Plain(MixKey(g, l, norm0)),
     value |-> Plain(MixValue(g, l, norm0)),
     attn_dense |-> Plain(MixOutput(g, l)),
     attn_norm |-> Reduced(g, module.attn_norm.id),
     attn_residual |-> Plain(MixAttnResidual(g, l, norm0)),
     inter_dense |-> Plain(MixW1(g, l, module.inter_dense.linear)),
     out_dense |-> Plain(MixW2(g, l)),
     out_norm |-> Reduced(g, module.out_norm.id),
     out_residual |-> Plain(MixOutResidual(g, l))]

\* the attributes the loop body reads exist: every mask, compactor and
\* extract() it asks for belongs to a wrapped module
Mixable(module, norm0) ==
    /\ norm0.kind = "LayerNormWithCompactor"
    /\ module.attn_norm.kind = "LayerNormWithCompactor"
    /\ module.out_norm.kind = "LayerNormWithCompactor"
    /\ module.query.kind = "LinearWithCompactorAfter"
    /\ module.key.kind = "LinearWithCompactorAfter"
    /\ module.value.kind = "LinearWithCompactorAfter"
    /\ module.attn_dense.kind = "LinearWithCompactorBefore"
    /\ module.out_dense.kind = "LinearWithMaskBefore"

\* get_packed_bert_config whose past_layer_norm stays the embedding normalization
get_packed_bert_config_stale(m) ==
    [l \in Layers |->
        [input_dim |-> m.embeddings_LayerNorm.norm.size,
         attn_output_dim |-> m.layer[l].attn_norm.norm.size,
         ffn_output_dim |-> m.layer[l].out_norm.norm.size,
         num_heads |-> config.num_attention_heads,
         qk_dim |-> m.layer[l].query.linear.out,
         vo_dim |-> m.layer[l].value.linear.out,
         ffn_dim |-> m.layer[l].inter_dense.linear.out,
         prune_attn |-> FALSE,
         prune_ffn |-> FALSE]]

\* get_packed_bert_config(model)
get_packed_bert_config(m) ==
    [l \in Layers |->
        LET past == IF l = 1 THEN m.embeddings_LayerNorm ELSE m.layer[l - 1].out_norm
        IN [input_dim |-> past.norm.size,
            attn_output_dim |-> m.layer[l].attn_norm.norm.size,
            ffn_output_dim |-> m.layer[l].out_norm.norm.size,
            num_heads |-> config.num_attention_heads,
            qk_dim |-> m.layer[l].query.linear.out,
            vo_dim |-> m.layer[l].value.linear.out,
            ffn_dim |-> m.layer[l].inter_dense.linear.out,
            prune_attn |-> FALSE,
            prune_ffn |-> FALSE]]

\* re-assembly that fuses pooler.dense and leaves embeddings.LayerNorm wrapped
Reassembled_pooler_only(g, m, first, last) ==
    [m EXCEPT
        !.pooler =
            Module("BertPooler", NewId,
                   merge(NormOutComp(g, last.id), m.pooler.linear), NoNorm)]

\* re-assembly that keeps only the reduced normalization at the embedding
\* boundary and drops the reduced in_comp
Reassembled_bare_norm(g, m, first, last) ==
    [m EXCEPT
        !.embeddings_LayerNorm =
            Module("LayerNorm", NewId, NoLinear,
                   LayerNormWithCompactor_extract(first.id, Mask_parse(g[first.id]).indices)),
        !.pooler =
            Module("BertPooler", NewId,
                   merge(NormOutComp(g, last.id), m.pooler.linear), NoNorm)]

\* the model after lines 214-222: embeddings.LayerNorm and pooler.dense replaced
Reassembled(g, m, first, last) ==
    [m EXCEPT
        !.embeddings_LayerNorm =
            Module("Sequential", NewId, NormInComp(g, first.id),
                   LayerNormWithCompactor_extract(first.id, Mask_parse(g[first.id]).indices)),
        !.pooler =
            Module("BertPooler", NewId,
                   merge(NormOutComp(g, last.id), m.pooler.linear), NoNorm)]

----------------------------------------------------------------------------
(* CompactorMixer: construction and mix() *)

AllKept(id) == Ones(MaskWidth(id))

\* gate vectors of one mask: each feature dropped, kept as is, or kept with the
\* largest scale
GateVectors(id) == [1..MaskWidth(id) -> {0, 1, MaxGate}]

\* snapshot f: the masks of DOMAIN f gated as f says, every other mask keeps everything
Pruned(f) == [id \in MaskIds |-> IF id \in DOMAIN f THEN f[id] ELSE AllKept(id)]

\* the snapshots in which at most MaxPruned masks differ from "keep everything"
SparseSnapshots ==
    UNION { { Pruned(f) : f \in { h \in [S -> UNION { GateVectors(id) : id \in S }] :
                                    \A id \in S : h[id] \in GateVectors(id) \ {AllKept(id)} } } :
            S \in { T \in SUBSET MaskIds : Cardinality(T) <= MaxPruned } }

MaskCode(id) ==
    CASE id[2] = "norm1" -> 1 [] id[2] = "norm2" -> 2 [] id[2] = "qk" -> 3
      [] id[2] = "vo" -> 4 [] id[2] = "ffn" -> 5

\* snapshot number s of the samples in which every mask is pruned or scaled
DenseSnapshot(s) ==
    [id \in MaskIds |->
        [i \in 1..MaskWidth(id) |->
            Digit(13 * s + 5 * id[1] + 2 * MaskCode(id) + i) % (MaxGate + 1)]]

DenseSnapshots == { DenseSnapshot(s) : s \in 1..NumSamples }

Snapshots == SparseSnapshots \cup DenseSnapshots

\* CompactorMixer(args, model, factory): a model with a pooler and any
\* snapshot, or a model without pooler and a sampled snapshot
MixInit ==
    /\ \/ gates \in Snapshots /\ model = TrainedModel(TRUE)
       \/ gates \in DenseSnapshots /\ model = TrainedModel(FALSE)
    /\ past_layer_norm = NoModule
    /\ layer_id = 0
    /\ pc = "idle"
    /\ p_model = NoPModel
    /\ run = 0

\* mix() is called: lines 124-125
MixCall ==
    /\ pc \in {"idle", "done", "assert_failed", "raised"}
    /\ run < MaxRuns
    /\ run' = run + 1
    /\ past_layer_norm' = model.embeddings_LayerNorm
    /\ layer_id' = 1
    /\ pc' = "loop"
    /\ UNCHANGED <<gates, model, p_model>>
    /\ UNCHANGED mixerVars
    /\ UNCHANGED trainerVars

\* the loop body without line 204: the cursor is not advanced
MixLayer_stale ==
    /\ pc = "loop"
    /\ layer_id \in Layers
    /\ Mixable(model.layer[layer_id], past_layer_norm)
    /\ model' = [model EXCEPT
           !.layer[layer_id] =
               MixedLayer(gates, layer_id, model.layer[layer_id], past_layer_norm.id)]
    /\ layer_id' = layer_id + 1
    /\ UNCHANGED <<gates, pc, p_model, run, past_layer_norm>>
    /\ UNCHANGED mixerVars
    /\ UNCHANGED trainerVars

\* one pass of the loop over the encoder layers: lines 126-204
MixLayer ==
    /\ pc = "loop"
    /\ layer_id \in Layers
    /\ Mixable(model.layer[layer_id], past_layer_norm)
    /\ model' = [model EXCEPT
           !.layer[layer_id] =
               MixedLayer(gates, layer_id, model.layer[layer_id], past_layer_norm.id)]
    /\ past_layer_norm' = model.layer[layer_id].out_norm
    /\ layer_id' = layer_id + 1
    /\ UNCHANGED <<gates, pc, p_model, run>>
    /\ UNCHANGED mixerVars
    /\ UNCHANGED trainerVars

\* a sub-module the loop body reads is not the wrapped kind: the attribute
\* lookup (mask, compactor, extract) raises and mix() is left
MixRaise ==
    /\ pc = "loop"
    /\ layer_id \in Layers
    /\ ~Mixable(model.layer[layer_id], past_layer_norm)
    /\ pc' = "raised"
    /\ UNCHANGED <<gates, model, past_layer_norm, layer_id, p_model, run>>
    /\ UNCHANGED mixerVars
    /\ UNCHANGED trainerVars

\* a pooler of None tolerated: the pooler fusion is skipped and a model returned
MixAssertFail_fallback ==
    /\ pc = "loop"
    /\ layer_id \notin Layers
    /\ model.pooler.kind = "None"
    /\ p_model' = [NoPModel EXCEPT !.layer = model.layer]
    /\ pc' = "done"
    /\ UNCHANGED <<gates, model, past_layer_norm, layer_id, run>>
    /\ UNCHANGED mixerVars
    /\ UNCHANGED trainerVars

\* after the loop, the pooler is None: the assertion of line 212 fails
MixAssertFail ==
    /\ pc = "loop"
    /\ layer_id \notin Layers
    /\ model.pooler.kind = "None"
    /\ pc' = "assert_failed"
    /\ UNCHANGED <<gates, model, past_layer_norm, layer_id, p_model, run>>
    /\ UNCHANGED mixerVars
    /\ UNCHANGED trainerVars

\* after the loop: lines 206-228, the packed model is built and returned
MixFinish ==
    /\ pc = "loop"
    /\ layer_id \notin Layers
    /\ model.pooler.kind # "None"
    /\ LET m == Reassembled(gates, model, model.embeddings_LayerNorm, past_layer_norm)
       IN /\ model' = m
          /\ p_model' = [per_layer_config |-> get_packed_bert_config(m),
                         layer |-> m.layer,
                         embeddings_LayerNorm |-> m.embeddings_LayerNorm,
                         pooler |-> m.pooler]
    /\ pc' = "done"
    /\ UNCHANGED <<gates, past_layer_norm, layer_id, run>>
    /\ UNCHANGED mixerVars
    /\ UNCHANGED trainerVars

Init ==
    /\ MixInit
    /\ argA = NoLinear /\ argB = NoLinear /\ argC = NoLinear
    /\ argIdx = <<>> /\ fused = NoLinear /\ mstep = "unused"
    /\ args = <<>> /\ trainer = <<>> /\ state = <<>>

Next ==
    \/ MixCall
    \/ MixLayer
    \/ MixRaise
    \/ MixAssertFail
    \/ MixFinish

Spec == Init /\ [][Next]_vars

----------------------------------------------------------------------------
(* LinearMixer sessions: LinearMixer(A).merge(B).merge(C), .merge_mask(idx) *)

MixerInit ==
    /\ argA \in Linears(2, 2)
    /\ fused = argA
    /\ argB = NoLinear
    /\ argC = NoLinear
    /\ argIdx = <<>>
    /\ mstep = "wrapped"
    /\ gates = <<>> /\ model = NoModule /\ past_layer_norm = NoModule
    /\ layer_id = 0 /\ pc = "unused" /\ p_model = NoPModel /\ run = 0
    /\ args = <<>> /\ trainer = <<>> /\ state = <<>>

\* LinearMixer(A).merge(B)
Merge ==
    /\ mstep = "wrapped"
    /\ \E other \in Linears(2, 2) :
        /\ fused' = merge(fused, other)
        /\ argB' = other
    /\ mstep' = "merged"
    /\ UNCHANGED <<argA, argC, argIdx>>
    /\ UNCHANGED mixVars
    /\ UNCHANGED trainerVars

\* LinearMixer(A).merge_mask(indices)
MergeMask ==
    /\ mstep = "wrapped"
    /\ \E indices \in IndexSeqs(fused.out) :
        /\ fused' = merge_mask(fused, indices)
        /\ argIdx' = indices
    /\ mstep' = "masked"
    /\ UNCHANGED <<argA, argB, argC>>
    /\ UNCHANGED mixVars
    /\ UNCHANGED trainerVars

\* LinearMixer(A).merge(B).merge(C)
MergeAgain ==
    /\ mstep = "merged"
    /\ \E other \in Linears(2, 1) :
        /\ fused' = merge(fused, other)
        /\ argC' = other
    /\ mstep' = "merged2"
    /\ UNCHANGED <<argA, argB, argIdx>>
    /\ UNCHANGED mixVars
    /\ UNCHANGED trainerVars

MixerNext == Merge \/ MergeMask

SpecMixer == MixerInit /\ [][MixerNext]_vars

ChainNext == Merge \/ MergeMask \/ MergeAgain

SpecChain == MixerInit /\ [][ChainNext]_vars

----------------------------------------------------------------------------
(* C1: merge of two biased transforms is their sequential composition: the *)
(* result has a bias, weight W_B * W_A and bias W_B * b_A + b_B, so it     *)
(* agrees with B(A(x)) on every input.                                     *)
C1_MergeComposes ==
    (mstep = "merged" /\ argA.hasBias /\ argB.hasBias) =>
        /\ fused.in = argA.in /\ fused.out = argB.out
        /\ fused.hasBias
        /\ \A i \in 1..fused.out : \A j \in 1..fused.in :
             fused.weight[i][j] =
                 argB.weight[i][1] * argA.weight[1][j] + argB.weight[i][2] * argA.weight[2][j]
        /\ \A i \in 1..fused.out :
             fused.bias[i] =
                 argB.weight[i][1] * argA.bias[1] + argB.weight[i][2] * argA.bias[2]
                 + argB.bias[i]
        /\ \A x \in Probes(argA.in) : Apply(fused, x) = Apply(argB, Apply(argA, x))

C1_Witness ==
    /\ mstep = "merged" /\ argA.hasBias /\ argB.hasBias
    /\ argA.bias = <<1, 0>> /\ argB.weight = <<<<0, 1>>, <<1, 1>>>>
    /\ fused.bias # argB.bias

(* C2: a bias contributed by exactly one operand survives the merge, so    *)
(* merge(A,B)(x) = B(A(x)) also when only one of A, B has a bias.          *)
C2_MixedBiasPreserved ==
    (mstep = "merged" /\ argA.hasBias # argB.hasBias) =>
        /\ fused.hasBias
        /\ \A x \in Probes(argA.in) : Apply(fused, x) = Apply(argB, Apply(argA, x))

(* C3: merge_mask(indices) is row selection: the rows (and bias entries)   *)
(* of A at indices, in order; it equals merge(A, SelectionMatrix(indices)) *)
(* and its output is A(x) restricted to indices.                           *)
C3_MergeMaskIsSelection ==
    mstep = "masked" =>
        /\ fused.in = argA.in /\ fused.out = Len(argIdx)
        /\ fused.hasBias = argA.hasBias
        /\ \A r \in 1..Len(argIdx) :
             /\ fused.weight[r] = argA.weight[argIdx[r]]
             /\ fused.bias[r] = argA.bias[argIdx[r]]
        /\ \A x \in Probes(argA.in) : \A r \in 1..Len(argIdx) :
             Apply(fused, x)[r] = Apply(argA, x)[argIdx[r]]
        /\ \A x \in Probes(argA.in) :
             Apply(fused, x) = Apply(merge(argA, SelectionMatrix(argIdx, argA.out)), x)

(* C4: fusion is associative and correct for every combination of biases:  *)
(* merge(merge(A,B),C)(x) = merge(A,merge(B,C))(x) = C(B(A(x))).           *)
C4_FusionAssociativeCorrect ==
    mstep = "merged2" =>
        \A x \in Probes(argA.in) :
            /\ Apply(fused, x) = Apply(merge(argA, merge(argB, argC)), x)
            /\ Apply(fused, x) = Apply(argC, Apply(argB, Apply(argA, x)))

----------------------------------------------------------------------------
(* The masked layer before compaction: its forward pass in the full space. *)
(* A Feature Mask multiplies each feature by its gate; a dropped feature   *)
(* has gate 0.                                                             *)

Gate(g, v) == Tup([i \in 1..Len(g) |-> g[i] * v[i]], Len(g))

\* the kept features x placed at indices in a zero vector of width n
Embed(x, indices, n) ==
    Tup([i \in 1..n |->
            SumTo([r \in 1..Len(indices) |-> IF indices[r] = i THEN x[r] ELSE 0], Len(indices))],
        n)

Restrict(v, indices) == Tup([r \in 1..Len(indices) |-> v[indices[r]]], Len(indices))

Dot(u, v) == SumTo([k \in 1..Len(u) |-> u[k] * v[k]], Len(u))

Kept(g) == Cardinality({i \in 1..Len(g) : g[i] > 0})

\* the gated output stream h of the normalization with mask id, through out_comp
NormOut(g, id, h) == Apply(TrainedNorm(id).out_comp, Gate(g[id], h))

\* the stream y entering the normalization with mask id: in_comp, then the gate
NormIn(g, id, y) == Gate(g[id], Apply(TrainedNorm(id).in_comp, y))

\* q2(q1(norm0.out_comp(h))), k2(k1(...)), v2(v1(...)): compactor after base
ProjFull(g, l, name, h) ==
    Apply(TrainedModule(l, name).compactor,
          Apply(TrainedModule(l, name).linear, NormOut(g, <<l - 1, "norm2">>, h)))

\* norm1.in_comp(o2(o1(v))) for a value stream v in the full space
AttnOutFull(g, l, v) ==
    NormIn(g, <<l, "norm1">>,
           Apply(TrainedModule(l, "attn_dense").linear,
                 Apply(TrainedModule(l, "attn_dense").compactor, v)))

\* value -> attention output of the masked layer
AttnOrig(g, l, h) ==
    AttnOutFull(g, l, Gate(g[<<l, "vo">>], ProjFull(g, l, "value", h)))

\* up -> down projection of the masked layer: norm2.in_comp(w2(w1(norm1.out_comp(h))))
FfnOrig(g, l, h) ==
    NormIn(g, <<l, "norm2">>,
           Apply(TrainedModule(l, "out_dense").linear,
                 Gate(g[<<l, "ffn">>],
                      Apply(TrainedModule(l, "inter_dense").linear,
                            NormOut(g, <<l, "norm1">>, h)))))

\* layer l has been through the loop body
Mixed(l) == pc # "unused" /\ model.layer[l].query.kind = "Linear"

Idx(l, m) == Mask_parse(gates[<<l, m>>]).indices

Val(l, m) == Mask_parse(gates[<<l, m>>]).values

H == config.hidden_size

----------------------------------------------------------------------------
(* C5: pruning equivalence. In the packed model mix() returns, for every    *)
(* layer and pruning pattern, the fused query/key score, the fused value -> *)
(* attention-output chain and the fused up -> down chain, fed the kept      *)
(* input features, equal the masked layer's chain in the full space         *)
(* (dropped inputs zero) restricted to the kept outputs; with every gate 1  *)
(* nothing is dropped and the fused chains are the full chains.             *)
C5_PruningEquivalence ==
    pc = "done" =>
        \A l \in Layers :
            LET m == p_model.layer[l]
                n0 == Idx(l - 1, "norm2")
                n1 == Idx(l, "norm1")
                n2 == Idx(l, "norm2")
                P0 == Probes(Len(n0))
                keys == [y \in P0 |-> <<Apply(m.key.linear, y),
                                        ProjFull(gates, l, "key", Embed(y, n0, H))>>]
            IN /\ DOMAIN keys = P0
               /\ \A x \in P0 :
                    LET hx == Embed(x, n0, H)
                        q == Apply(m.query.linear, x)
                        qFull == Gate(gates[<<l, "qk">>], ProjFull(gates, l, "query", hx))
                    IN /\ \A y \in P0 : Dot(q, keys[y][1]) = Dot(qFull, keys[y][2])
                       /\ Apply(m.attn_dense.linear, Apply(m.value.linear, x))
                             = Restrict(AttnOrig(gates, l, hx), n1)
               /\ \A x \in Probes(Len(n1)) :
                    Apply(m.out_dense.linear, Apply(m.inter_dense.linear, x))
                      = Restrict(FfnOrig(gates, l, Embed(x, n1, H)), n2)

C5_Witness ==
    /\ pc = "done"
    /\ gates[<<0, "norm2">>] = <<2, 1>> /\ gates[<<1, "norm1">>] = <<2, 0>>
    /\ gates[<<1, "qk">>] = <<0, 2>> /\ gates[<<1, "vo">>] = <<0, 2>>
    /\ gates[<<1, "ffn">>] = <<1, 0>> /\ gates[<<1, "norm2">>] = <<1, 0>>
    /\ p_model.layer[1].attn_dense.linear.weight # <<<<0>>>>
    /\ p_model.layer[2].query.linear.in = 1

(* C6: dimension accounting. Every layer's packed configuration has        *)
(* input_dim = kept features of the preceding normalization (the embedding *)
(* normalization for the first layer), attn_output_dim, ffn_output_dim,    *)
(* qk_dim, vo_dim, ffn_dim = kept features of norm1, norm2, qk, vo, ffn.   *)
C6_DimensionAccounting ==
    pc = "done" =>
        \A l \in Layers :
            LET c == p_model.per_layer_config[l]
            IN /\ c.input_dim = Kept(gates[<<l - 1, "norm2">>])
               /\ c.attn_output_dim = Kept(gates[<<l, "norm1">>])
               /\ c.ffn_output_dim = Kept(gates[<<l, "norm2">>])
               /\ c.qk_dim = Kept(gates[<<l, "qk">>])
               /\ c.vo_dim = Kept(gates[<<l, "vo">>])
               /\ c.ffn_dim = Kept(gates[<<l, "ffn">>])

C6_Witness ==
    /\ pc = "done"
    /\ p_model.per_layer_config[1].input_dim = 2
    /\ p_model.per_layer_config[1].attn_output_dim = 1
    /\ p_model.per_layer_config[1].ffn_dim = 1
    /\ p_model.per_layer_config[2].input_dim = 1
    /\ p_model.per_layer_config[2].qk_dim = 1
    /\ p_model.per_layer_config[2].ffn_dim = 2

\* operands A, B of a merge compose: A's output width is B's input width
Composable(a, b) == a.out = b.in

(* C7: shape composability. After a layer is compacted, query and key map  *)
(* K0 -> Kqk, value K0 -> Kvo, attention output Kvo -> K1, up-projection   *)
(* K1 -> Kffn, down-projection Kffn -> K2, the residuals K0 -> K1 and      *)
(* K1 -> K2, and every merge of the chain had operands of agreeing widths. *)
C7_ShapeComposability ==
    \A l \in Layers : Mixed(l) =>
        LET m == model.layer[l]
            g == gates
            n0 == <<l - 1, "norm2">>
            K0 == Kept(g[n0])
            K1 == Kept(g[<<l, "norm1">>])
            K2 == Kept(g[<<l, "norm2">>])
            Kqk == Kept(g[<<l, "qk">>])
            Kvo == Kept(g[<<l, "vo">>])
            Kffn == Kept(g[<<l, "ffn">>])
            Shape(mod, in, out) == mod.linear.in = in /\ mod.linear.out = out
            Chain3(a, b, c) == Composable(a, b) /\ Composable(merge(a, b), c)
        IN /\ Shape(m.query, K0, Kqk) /\ Shape(m.key, K0, Kqk)
           /\ Shape(m.value, K0, Kvo) /\ Shape(m.attn_dense, Kvo, K1)
           /\ Shape(m.inter_dense, K1, Kffn) /\ Shape(m.out_dense, Kffn, K2)
           /\ Shape(m.attn_residual, K0, K1) /\ Shape(m.out_residual, K1, K2)
           /\ \A name \in {"query", "key"} :
                Chain3(NormOutComp(g, n0), TrainedModule(l, name).linear,
                       Compactor_extract(TrainedModule(l, name).compactor, "output",
                                         Idx(l, "qk"), Val(l, "qk"), FALSE))
           /\ Chain3(NormOutComp(g, n0), TrainedModule(l, "value").linear,
                     Compactor_extract(TrainedModule(l, "value").compactor, "output",
                                       Idx(l, "vo"), Val(l, "vo"), TRUE))
           /\ Chain3(Compactor_extract(TrainedModule(l, "attn_dense").compactor, "input",
                                       Idx(l, "vo"), Val(l, "vo"), FALSE),
                     TrainedModule(l, "attn_dense").linear,
                     NormInComp(g, <<l, "norm1">>))
           /\ Composable(NormOutComp(g, <<l, "norm1">>), TrainedModule(l, "inter_dense").linear)
           /\ Composable(LinearWithMaskBefore_extract(TrainedModule(l, "out_dense").linear,
                                                      Idx(l, "ffn"), Val(l, "ffn")),
                         NormInComp(g, <<l, "norm2">>))
           /\ Composable(NormOutComp(g, n0), NormInComp(g, <<l, "norm1">>))
           /\ Composable(NormOutComp(g, <<l, "norm1">>), NormInComp(g, <<l, "norm2">>))

C7_Witness ==
    /\ Mixed(2)
    /\ model.layer[2].query.linear.in = 1 /\ model.layer[2].query.linear.out = 1
    /\ model.layer[2].inter_dense.linear.in = 1 /\ model.layer[2].inter_dense.linear.out = 2
    /\ model.layer[2].out_dense.linear.out = 2
    /\ model.layer[2].out_residual.linear.in = 1 /\ model.layer[2].out_residual.linear.out = 2

LinearSlots ==
    {"query", "key", "value", "attn_dense", "inter_dense", "out_dense",
     "attn_residual", "out_residual"}

NormSlots == {"attn_norm", "out_norm"}

\* every slot of layer record m holds a module built by mix()
Rebound(m) ==
    /\ \A s \in LinearSlots : m[s].kind = "Linear" /\ m[s].id = NewId
    /\ \A s \in NormSlots : m[s].kind = "LayerNorm" /\ m[s].id = NewId

(* C9 as claimed: after mix() returns, every sub-module of the input model *)
(* is unchanged.                                                           *)
C9_InputModelUnchanged ==
    pc = "done" => model = TrainedModel(TRUE)

(* C9, amended: mix() rewrites the input model in place. While the first   *)
(* run is in its loop the layers already processed hold only new fused     *)
(* transforms and reduced normalizations and the layers not yet processed  *)
(* are the trained ones; after mix() returns every layer is rewritten, the *)
(* embedding normalization slot holds a new Sequential, pooler.dense is a  *)
(* new fused transform, and the packed model holds those same parameters.  *)
C9_ModelRewrittenInPlace ==
    /\ (pc = "loop" /\ run = 1) =>
          /\ \A l \in Layers :
                IF l < layer_id THEN Rebound(model.layer[l])
                                ELSE model.layer[l] = TrainedLayer(l)
          /\ model.embeddings_LayerNorm = TrainedModel(TRUE).embeddings_LayerNorm
          /\ model.pooler = TrainedModel(model.pooler.kind # "None").pooler
    /\ pc = "done" =>
          /\ \A l \in Layers : Rebound(model.layer[l])
          /\ model.embeddings_LayerNorm.kind = "Sequential"
          /\ model.embeddings_LayerNorm.id = NewId
          /\ model.pooler.kind = "BertPooler" /\ model.pooler.id = NewId
          /\ p_model.layer = model.layer
          /\ p_model.embeddings_LayerNorm = model.embeddings_LayerNorm
          /\ p_model.pooler = model.pooler

C9_Witness ==
    /\ pc = "done"
    /\ model.layer[2].key.linear.in = 1
    /\ model.pooler.linear.in = 1

(* C10: query/key scale asymmetry. The fused query and key keep the same   *)
(* positions qk_idx; each query row is the full chain's row times its gate *)
(* qk_val, each key row is the full chain's row unscaled. The value rows   *)
(* are scaled by vo_val; the attention output takes the kept vo positions  *)
(* on its input side without scaling.                                      *)
C10_QueryKeyAsymmetry ==
    pc = "done" =>
        \A l \in Layers :
            LET m == p_model.layer[l]
                n0 == Idx(l - 1, "norm2")
                qk == Mask_parse(gates[<<l, "qk">>])
                vo == Mask_parse(gates[<<l, "vo">>])
            IN /\ \A x \in Probes(Len(n0)) :
                    LET hx == Embed(x, n0, H)
                        q == Apply(m.query.linear, x)
                        k == Apply(m.key.linear, x)
                        v == Apply(m.value.linear, x)
                        qFull == ProjFull(gates, l, "query", hx)
                        kFull == ProjFull(gates, l, "key", hx)
                        vFull == ProjFull(gates, l, "value", hx)
                    IN /\ \A r \in 1..Len(qk.indices) :
                            /\ q[r] = qk.values[r] * qFull[qk.indices[r]]
                            /\ k[r] = kFull[qk.indices[r]]
                       /\ \A r \in 1..Len(vo.indices) :
                            v[r] = vo.values[r] * vFull[vo.indices[r]]
               /\ m.query.linear.out = Len(qk.indices)
               /\ m.key.linear.out = Len(qk.indices)
               /\ \A v \in Probes(Len(vo.indices)) :
                    Apply(m.attn_dense.linear, v)
                      = Restrict(AttnOutFull(gates, l, Embed(v, vo.indices, H)),
                                 Idx(l, "norm1"))

C10_Witness ==
    /\ pc = "done"
    /\ gates[<<1, "qk">>] = <<2, 1>> /\ gates[<<1, "vo">>] = <<1, 1>>
    /\ Apply(p_model.layer[1].query.linear, <<1, 0>>)[1]
         = 2 * ProjFull(gates, 1, "query", <<1, 0>>)[1]
    /\ Apply(p_model.layer[1].key.linear, <<1, 0>>)[1]
         = ProjFull(gates, 1, "key", <<1, 0>>)[1]
    /\ ProjFull(gates, 1, "key", <<1, 0>>)[1] # 0

(* C11: sequential normalization cursor. Layers are processed in ascending *)
(* order, one at a time; the first layer's norm0 is the embedding          *)
(* normalization and every later layer's norm0 is the original, unreduced  *)
(* norm2 of the layer before it, not the reduced one now in that slot; in  *)
(* the packed configuration each layer's input_dim is the ffn_output_dim   *)
(* of the layer before it.                                                 *)
C11_SequentialCursor ==
    /\ [](pc = "loop" =>
            /\ layer_id \in 1..(config.num_hidden_layers + 1)
            /\ past_layer_norm =
                  IF layer_id = 1 THEN model.embeddings_LayerNorm
                                  ELSE TrainedLayer(layer_id - 1).out_norm
            /\ layer_id > 1 =>
                  /\ past_layer_norm.kind = "LayerNormWithCompactor"
                  /\ past_layer_norm.id = <<layer_id - 1, "norm2">>
                  /\ past_layer_norm # model.layer[layer_id - 1].out_norm)
    /\ [](pc = "done" =>
            \A l \in Layers \ {1} :
                p_model.per_layer_config[l].input_dim
                  = p_model.per_layer_config[l - 1].ffn_output_dim)
    /\ [][layer_id' # layer_id =>
            \/ layer_id' = 1 /\ pc # "loop" /\ pc' = "loop"
            \/ /\ layer_id' = layer_id + 1 /\ pc = "loop"
               /\ model'.layer[layer_id] # model.layer[layer_id]
               /\ \A l \in Layers \ {layer_id} : model'.layer[l] = model.layer[l]]_vars

C11_Witness ==
    /\ pc = "loop" /\ layer_id = 2 /\ run = 1
    /\ past_layer_norm.id = <<1, "norm2">>
    /\ model.layer[1].out_norm.kind = "LayerNorm"
    /\ model.layer[1].out_norm.norm.size = 1

(* C12: a model without pooler. mix() ends in the failed assertion of line *)
(* 212, after the loop has rewritten every layer; no packed model is ever  *)
(* returned for such a model, and nothing follows the failure but a new    *)
(* call by the caller, which does not get further.                         *)
C12_NoPoolerAssertFails ==
    /\ [](model.pooler.kind = "None" =>
            /\ pc # "done"
            /\ p_model = NoPModel
            /\ (run = 1 /\ pc # "loop") => pc = "assert_failed"
            /\ (run > 1 /\ pc # "loop") => pc = "raised"
            /\ pc = "assert_failed" =>
                  /\ layer_id = config.num_hidden_layers + 1
                  /\ \A l \in Layers : Rebound(model.layer[l])
                  /\ model.embeddings_LayerNorm = TrainedModel(FALSE).embeddings_LayerNorm)
    /\ [](pc = "assert_failed" => model.pooler.kind = "None")
    /\ [][pc = "assert_failed" =>
            /\ pc' = "loop" /\ run' = run + 1
            /\ UNCHANGED <<model, p_model, gates>>]_vars

C12_Witness ==
    /\ pc = "assert_failed" /\ run = 1
    /\ model.pooler.kind = "None"
    /\ p_model = NoPModel
    /\ model.layer[2].query.kind = "Linear"

(* C13: degenerate masks. No transform built by mix() and no width of the  *)
(* packed configuration is zero: a mask that keeps no feature is rejected  *)
(* before a zero-width transform comes out of the loop body.               *)
C13_NoZeroWidth ==
    /\ \A l \in Layers : Mixed(l) =>
          \A s \in LinearSlots :
              model.layer[l][s].linear.in > 0 /\ model.layer[l][s].linear.out > 0
    /\ pc = "done" =>
          \A l \in Layers :
              LET c == p_model.per_layer_config[l]
              IN /\ c.input_dim > 0 /\ c.attn_output_dim > 0 /\ c.ffn_output_dim > 0
                 /\ c.qk_dim > 0 /\ c.vo_dim > 0 /\ c.ffn_dim > 0

\* module classes that carry a compactor of their own
CompactorKinds ==
    {"LinearWithCompactorAfter", "LinearWithCompactorBefore", "LayerNormWithCompactor"}

\* the slot holds a compactor as a stage of its own: a wrapped module, or the
\* nn.Sequential whose first stage is a reduced compactor
StandaloneCompactor(mod) == mod.kind \in CompactorKinds \/ mod.kind = "Sequential"

\* every slot of the model m
Slots(m) ==
    {m.embeddings_LayerNorm, m.pooler}
      \cup { m.layer[l][s] : l \in Layers, s \in LinearSlots \cup NormSlots }

(* C14 as claimed: after mix() no compactor, full or reduced, is a stage   *)
(* of its own anywhere in the assembled model.                             *)
C14_NoStandaloneCompactor ==
    pc = "done" =>
        \A mod \in Slots(model) : ~StandaloneCompactor(mod)

(* C14, amended: after mix() no wrapped module is left and every reduced   *)
(* compactor of the layers and of the pooler boundary is inside a fused    *)
(* transform; the one exception is the embedding boundary, where the       *)
(* reduced in_comp of the embedding normalization stays a stage of its own,*)
(* the first stage of the nn.Sequential in the embeddings.LayerNorm slot   *)
(* of the model whose parameters are loaded into the packed model.         *)
C14_OnlyEmbeddingCompactorStandalone ==
    pc = "done" =>
        /\ \A m \in {model} :
              /\ \A mod \in Slots(m) \ {m.embeddings_LayerNorm} : ~StandaloneCompactor(mod)
              /\ \A mod \in Slots(m) : mod.kind \notin CompactorKinds
              /\ m.embeddings_LayerNorm.kind = "Sequential"
              /\ m.embeddings_LayerNorm.linear = NormInComp(gates, <<0, "norm2">>)
              /\ m.embeddings_LayerNorm.norm.size = Len(Idx(0, "norm2"))
        /\ \A l \in Layers : \A s \in LinearSlots : model.layer[l][s].kind = "Linear"
        /\ model.pooler.kind = "BertPooler" /\ model.pooler.id = NewId

C14_Witness ==
    /\ pc = "done"
    /\ StandaloneCompactor(model.embeddings_LayerNorm)
    /\ model.embeddings_LayerNorm.linear.in = 2
    /\ model.embeddings_LayerNorm.linear.out = 1
    /\ model.embeddings_LayerNorm.linear.weight # <<<<0, 0>>>>
    /\ p_model.embeddings_LayerNorm = model.embeddings_LayerNorm

(* C15: the two booleans of every layer's packed configuration mark        *)
(* sub-block removal: prune_attn is true exactly when nothing of the       *)
(* layer's attention sub-block is kept (no value/output dimension), and    *)
(* prune_ffn exactly when nothing of its feed-forward sub-block is kept    *)
(* (no intermediate dimension).                                            *)
C15_PruneFlagsMarkRemoval ==
    pc = "done" =>
        \A l \in Layers :
            LET c == p_model.per_layer_config[l]
            IN /\ c.prune_attn = (Kept(gates[<<l, "vo">>]) = 0)
               /\ c.prune_ffn = (Kept(gates[<<l, "ffn">>]) = 0)

\* out_comp of the normalization with mask id reduced with the given side at
\* the kept positions, scaled by the gate values
OutCompSide(id, side) ==
    Compactor_extract(TrainedNorm(id).out_comp, side,
                      Mask_parse(gates[id]).indices, Mask_parse(gates[id]).values, TRUE)

(* C16 as claimed: the first stage of the query, key, value and attention  *)
(* residual paths is norm0's out_comp reduced with side "output", that of  *)
(* the up-projection and feed-forward residual norm1's out_comp reduced    *)
(* with side "output", and the pooler gets the last normalization's        *)
(* out_comp reduced the same way.                                          *)
C16_OutCompOutputSide ==
    pc = "done" =>
        /\ \A l \in Layers :
              /\ NormOutComp(gates, <<l - 1, "norm2">>) = OutCompSide(<<l - 1, "norm2">>, "output")
              /\ NormOutComp(gates, <<l, "norm1">>) = OutCompSide(<<l, "norm1">>, "output")
        /\ NormOutComp(gates, past_layer_norm.id) = OutCompSide(past_layer_norm.id, "output")

(* C16, amended: the first stage is the out_comp reduced with side         *)
(* "input": the columns at the kept positions, each scaled by its gate     *)
(* value, a K -> D transform. Every fused query, key, value and attention  *)
(* residual is that stage of norm0 followed by the rest of its chain, the  *)
(* up-projection and feed-forward residual start with that stage of norm1, *)
(* and the fused pooler.dense with that stage of the last normalization.   *)
C16_OutCompInputSide ==
    pc = "done" =>
        /\ \A l \in Layers :
              LET m == model.layer[l]
                  first0 == OutCompSide(<<l - 1, "norm2">>, "input")
                  first1 == OutCompSide(<<l, "norm1">>, "input")
                  qk == Mask_parse(gates[<<l, "qk">>])
                  vo == Mask_parse(gates[<<l, "vo">>])
                  Comp(name, idx, val, scaled) ==
                      Compactor_extract(TrainedModule(l, name).compactor, "output",
                                        idx, val, scaled)
                  Base(name, h) == Apply(TrainedModule(l, name).linear, h)
              IN /\ first0.in = Len(Idx(l - 1, "norm2")) /\ first0.out = H
                 /\ first1.in = Len(Idx(l, "norm1")) /\ first1.out = H
                 /\ \A x \in Probes(first0.in) :
                       LET h == Apply(first0, x)
                       IN /\ Apply(m.query.linear, x)
                               = Apply(Comp("query", qk.indices, qk.values, TRUE),
                                       Base("query", h))
                          /\ Apply(m.key.linear, x)
                               = Apply(Comp("key", qk.indices, qk.values, FALSE),
                                       Base("key", h))
                          /\ Apply(m.value.linear, x)
                               = Apply(Comp("value", vo.indices, vo.values, TRUE),
                                       Base("value", h))
                          /\ Apply(m.attn_residual.linear, x)
                               = Apply(NormInComp(gates, <<l, "norm1">>), h)
                 /\ \A x \in Probes(first1.in) :
                       LET h == Apply(first1, x)
                       IN /\ Apply(m.inter_dense.linear, x)
                               = Restrict(Base("inter_dense", h), Idx(l, "ffn"))
                          /\ Apply(m.out_residual.linear, x)
                               = Apply(NormInComp(gates, <<l, "norm2">>), h)
        /\ LET last == OutCompSide(<<config.num_hidden_layers, "norm2">>, "input")
           IN \A x \in Probes(last.in) :
                 Apply(model.pooler.linear, x)
                   = Apply(TrainedModule(0, "pooler").linear, Apply(last, x))

C16_Witness ==
    /\ pc = "done"
    /\ gates[<<0, "norm2">>] = <<0, 2>>
    /\ model.layer[1].attn_residual.linear.in = 1
    /\ OutCompSide(<<0, "norm2">>, "input").out = 2
    /\ OutCompSide(<<0, "norm2">>, "output").out = 1
    /\ Apply(model.layer[1].query.linear, <<1>>) # Apply(model.layer[1].query.linear, <<0>>)


----------------------------------------------------------------------------
(* DistillTrainer (pipeline/squad/trainer.py): the pruning switches, the     *)
(* distillation switch and the best-checkpoint record.  Scores are integers, *)
(* sparsities are counted in hundredths, a state dict is the number of the   *)
(* optimisation epoch that produced the weights.                             *)

None == -1

Undefined == "<unset attribute>"

\* trainer.py line 629, in hundredths
sparsity_eps == 2

\* trainer.py lines 253-256
field_dict == [squad |-> "eval_f1", squad_v2 |-> "eval_f1"]

\* the TrainingArguments a DistillTrainer is built from: the pruning schedule
\* varies with the selection settings at rank 0 and the dataset default, or
\* the selection settings vary with the schedule 0 / 1
TrainingArguments ==
    { a \in [ target_score_field : {"None", "eval_f1", "eval_exact"},
              dataset_name : {"squad", "squad_v2"},
              local_rank : {-1, 0, 1},
              target_sparsity : {50},
              use_structural_pruning : BOOLEAN,
              pruning_start_epoch : 0..MaxEpoch,
              structural_pruning_start_epoch : 0..MaxEpoch ] :
        \/ /\ a.target_score_field = "None"
           /\ a.dataset_name = "squad"
           /\ a.local_rank = 0
        \/ /\ a.use_structural_pruning
           /\ a.pruning_start_epoch = 0
           /\ a.structural_pruning_start_epoch = 1 }

\* what compute_sparsity() may return while the masks are being trained
Sparsities == {40, 52, 53}

\* what the inner evaluation may return: no metrics, only the exact-match
\* score, or both scores
Results ==
    {<<>>}
    \cup {[k \in {"eval_exact"} |-> sc] : sc \in 0..MaxScore}
    \cup {[k \in {"eval_f1", "eval_exact"} |-> sc] : sc \in 0..MaxScore}

\* set_mask_group0_state / set_mask_group1_state: Mask.set_state(activate) on
\* every mask of the group; `activations` counts the calls with activate=True
set_mask_group_state(group, activate) ==
    [active |-> activate,
     activations |-> IF activate THEN group.activations + 1 ELSE group.activations]

\* DistillTrainer.__init__, lines 232-263: line 261 assigns args to itself, so
\* self.target_score_field is bound only on the branch of line 259
DistillTrainer_init(a) ==
    [ distill_switch |-> FALSE,
      target_sparsity |-> a.target_sparsity,
      use_structural_pruning |-> a.use_structural_pruning,
      pruning_switch |-> FALSE,
      structural_pruning_switch |-> FALSE,
      mask_group0 |-> set_mask_group_state([active |-> TRUE, activations |-> 0], FALSE),
      mask_group1 |-> set_mask_group_state([active |-> TRUE, activations |-> 0], FALSE),
      target_score_field |->
          IF a.target_score_field = "None" THEN field_dict[a.dataset_name]
          ELSE Undefined,
      best_score |-> None,
      best_state_dict |-> None,
      weights |-> 0 ]

\* on_epoch_begin without the `is False` tests: every callback past the start
\* epoch activates the group again
on_epoch_begin_unlatched(t, a, epoch) ==
    LET t1 == IF epoch >= a.pruning_start_epoch
              THEN [t EXCEPT !.pruning_switch = TRUE,
                             !.mask_group0 = set_mask_group_state(@, TRUE)]
              ELSE t
    IN  IF epoch >= a.structural_pruning_start_epoch /\ t1.use_structural_pruning
        THEN [t1 EXCEPT !.structural_pruning_switch = TRUE,
                        !.mask_group1 = set_mask_group_state(@, TRUE)]
        ELSE t1

\* DistillTrainerCallback.on_epoch_begin, lines 184-193
on_epoch_begin(t, a, epoch) ==
    LET t1 == IF epoch >= a.pruning_start_epoch /\ t.pruning_switch = FALSE
              THEN [t EXCEPT !.pruning_switch = TRUE,
                             !.mask_group0 = set_mask_group_state(@, TRUE)]
              ELSE t
    IN  IF /\ epoch >= a.structural_pruning_start_epoch
           /\ t1.use_structural_pruning
           /\ t1.structural_pruning_switch = FALSE
        THEN [t1 EXCEPT !.structural_pruning_switch = TRUE,
                        !.mask_group1 = set_mask_group_state(@, TRUE)]
        ELSE t1

\* evaluate(), lines 630-633: the test guarding the best-checkpoint update
Selectable(t, a, sparsity, results) ==
    /\ a.local_rank = 0
    /\ t.target_score_field \in DOMAIN results
    /\ sparsity - a.target_sparsity <= sparsity_eps
    /\ t.distill_switch = TRUE

\* evaluate(), lines 630-636, without the comparison with the stored best
select_best_latest(t, a, sparsity, results) ==
    IF Selectable(t, a, sparsity, results)
    THEN [t EXCEPT !.best_score = results[t.target_score_field],
                   !.best_state_dict = t.weights]
    ELSE t

\* evaluate(), lines 630-636
select_best(t, a, sparsity, results) ==
    IF /\ Selectable(t, a, sparsity, results)
       /\ \/ t.best_score = None
          \/ results[t.target_score_field] > t.best_score
    THEN [t EXCEPT !.best_score = results[t.target_score_field],
                   !.best_state_dict = t.weights]
    ELSE t

\* the position of a trainer no call is running on
Idle(st) ==
    [st EXCEPT !.pc = "idle", !.phase = "-", !.epoch = 0, !.eval = "none",
               !.past_distill_switch = FALSE, !.sparsity = None,
               !.results = <<>>]

\* the state after DistillTrainer(...) returned
TrainerInit ==
    /\ args \in TrainingArguments
    /\ trainer = DistillTrainer_init(args)
    /\ state = [pc |-> "idle", phase |-> "-", epoch |-> 0, eval |-> "none",
                past_distill_switch |-> FALSE, sparsity |-> None,
                results |-> <<>>, trains |-> 0, steps |-> 0, raised |-> FALSE]
    /\ argA = NoLinear /\ argB = NoLinear /\ argC = NoLinear
    /\ argIdx = <<>> /\ fused = NoLinear /\ mstep = "unused"
    /\ gates = <<>> /\ model = NoModule /\ past_layer_norm = NoModule
    /\ layer_id = 0 /\ pc = "unused" /\ p_model = NoPModel /\ run = 0

\* train() is called: line 369, then the training loop is entered at line 370
TrainCall ==
    /\ state.pc = "idle" /\ state.eval = "none"
    /\ state.trains < MaxTrains
    /\ trainer' = [trainer EXCEPT !.distill_switch = TRUE]
    /\ state' = [state EXCEPT !.pc = "training", !.phase = "epoch_begin",
                              !.epoch = 0, !.trains = @ + 1]
    /\ UNCHANGED args
    /\ UNCHANGED mixerVars
    /\ UNCHANGED mixVars

\* the training loop opens an epoch: the callback of lines 184-193 runs
OnEpochBegin ==
    /\ state.pc = "training" /\ state.phase = "epoch_begin"
    /\ trainer' = on_epoch_begin(trainer, args, state.epoch)
    /\ state' = [state EXCEPT !.phase = "steps"]
    /\ UNCHANGED args
    /\ UNCHANGED mixerVars
    /\ UNCHANGED mixVars

\* the optimisation steps of one epoch: the student's weights change
TrainEpoch ==
    /\ state.pc = "training" /\ state.phase = "steps"
    /\ trainer' = [trainer EXCEPT !.weights = state.steps + 1]
    /\ state' = [state EXCEPT !.phase = "epoch_end", !.steps = @ + 1]
    /\ UNCHANGED args
    /\ UNCHANGED mixerVars
    /\ UNCHANGED mixVars

\* the training loop raises during the steps of an epoch: line 371 is not run
TrainRaise ==
    /\ state.pc = "training" /\ state.phase = "steps"
    /\ state' = [Idle(state) EXCEPT !.raised = TRUE]
    /\ UNCHANGED <<args, trainer>>
    /\ UNCHANGED mixerVars
    /\ UNCHANGED mixVars

\* evaluate() is called, by the training loop at the end of an epoch or by
\* the caller outside train(): lines 605-625
EvaluateCall ==
    /\ state.eval = "none"
    /\ \/ state.pc = "idle"
       \/ state.pc = "training" /\ state.phase = "epoch_end"
    /\ \E sparsity \in Sparsities :
         state' = [state EXCEPT
                     !.eval = "inner",
                     !.past_distill_switch = trainer.distill_switch,
                     !.sparsity = IF args.local_rank = 0 THEN sparsity ELSE None]
    /\ trainer' = [trainer EXCEPT !.distill_switch = FALSE]
    /\ UNCHANGED args
    /\ UNCHANGED mixerVars
    /\ UNCHANGED mixVars

\* lines 626-627 without the assignment of line 627: the switch stays off
InnerReturn_norestore ==
    /\ state.eval = "inner"
    /\ \E results \in Results :
         state' = [state EXCEPT !.eval = "select", !.results = results]
    /\ UNCHANGED <<args, trainer>>
    /\ UNCHANGED mixerVars
    /\ UNCHANGED mixVars

\* the inner evaluation returns its metrics and the switch is restored:
\* lines 626-627
InnerReturn ==
    /\ state.eval = "inner"
    /\ \E results \in Results :
         state' = [state EXCEPT !.eval = "select", !.results = results]
    /\ trainer' = [trainer EXCEPT !.distill_switch = state.past_distill_switch]
    /\ UNCHANGED args
    /\ UNCHANGED mixerVars
    /\ UNCHANGED mixVars

\* the best-checkpoint update, then evaluate() returns: lines 629-638
EvaluateReturn ==
    /\ state.eval = "select"
    /\ ~(args.local_rank = 0 /\ trainer.target_score_field = Undefined)
    /\ trainer' = select_best(trainer, args, state.sparsity, state.results)
    /\ state' = [state EXCEPT !.eval = "none", !.results = <<>>,
                              !.past_distill_switch = FALSE,
                              !.sparsity = None]
    /\ UNCHANGED args
    /\ UNCHANGED mixerVars
    /\ UNCHANGED mixVars

\* line 631 reads an attribute that was never bound: AttributeError leaves
\* evaluate() and, when nested, train(), whose line 371 is not run
EvaluateAttributeError ==
    /\ state.eval = "select"
    /\ args.local_rank = 0 /\ trainer.target_score_field = Undefined
    /\ state' = [Idle(state) EXCEPT !.raised = TRUE]
    /\ UNCHANGED <<args, trainer>>
    /\ UNCHANGED mixerVars
    /\ UNCHANGED mixVars

\* the inner evaluation of line 626 raises: line 627 is not run
EvaluateRaise ==
    /\ state.eval = "inner"
    /\ state' = [Idle(state) EXCEPT !.raised = TRUE]
    /\ UNCHANGED <<args, trainer>>
    /\ UNCHANGED mixerVars
    /\ UNCHANGED mixVars

\* the training loop moves on to the next epoch
EpochEnd ==
    /\ state.pc = "training" /\ state.phase = "epoch_end" /\ state.eval = "none"
    /\ state.epoch + 1 < MaxEpoch
    /\ state' = [state EXCEPT !.epoch = @ + 1, !.phase = "epoch_begin"]
    /\ UNCHANGED <<args, trainer>>
    /\ UNCHANGED mixerVars
    /\ UNCHANGED mixVars

\* the training loop is over and train() returns: lines 371-377
TrainReturn ==
    /\ state.pc = "training" /\ state.phase = "epoch_end" /\ state.eval = "none"
    /\ state.epoch + 1 = MaxEpoch
    /\ trainer' = [trainer EXCEPT
                     !.distill_switch = FALSE,
                     !.weights = IF trainer.best_state_dict # None
                                 THEN trainer.best_state_dict ELSE @]
    /\ state' = Idle(state)
    /\ UNCHANGED args
    /\ UNCHANGED mixerVars
    /\ UNCHANGED mixVars

TrainerNext ==
    \/ TrainCall
    \/ OnEpochBegin
    \/ TrainEpoch
    \/ TrainRaise
    \/ EvaluateCall
    \/ InnerReturn
    \/ EvaluateReturn
    \/ EvaluateAttributeError
    \/ EvaluateRaise
    \/ EpochEnd
    \/ TrainReturn

SpecTrainer == TrainerInit /\ [][TrainerNext]_vars

----------------------------------------------------------------------------
(* C17: the pruning switches latch.  pruning_switch is False, with the     *)
(* group-0 masks inactive, until the first on_epoch_begin callback whose   *)
(* state.epoch is at least pruning_start_epoch; it becomes True there, the *)
(* group-0 masks are activated exactly once, and it is never reset.        *)
(* structural_pruning_switch becomes True, with the group-1 masks          *)
(* activated once, only at a callback whose state.epoch is at least        *)
(* structural_pruning_start_epoch and only if use_structural_pruning is    *)
(* set, and it is never reset afterwards.                                  *)
C17_PruningSwitchesLatch ==
    /\ [](/\ trainer.mask_group0.active = trainer.pruning_switch
          /\ trainer.mask_group0.activations = (IF trainer.pruning_switch THEN 1 ELSE 0)
          /\ trainer.mask_group1.active = trainer.structural_pruning_switch
          /\ trainer.mask_group1.activations =
                 (IF trainer.structural_pruning_switch THEN 1 ELSE 0)
          /\ trainer.structural_pruning_switch => trainer.use_structural_pruning)
    /\ [][LET callback == state.phase = "epoch_begin" /\ state'.phase = "steps"
          IN  /\ trainer.pruning_switch => trainer'.pruning_switch
              /\ trainer.structural_pruning_switch => trainer'.structural_pruning_switch
              /\ (callback /\ state.epoch >= args.pruning_start_epoch)
                     => trainer'.pruning_switch
              /\ trainer'.pruning_switch # trainer.pruning_switch
                     => callback /\ state.epoch >= args.pruning_start_epoch
              /\ trainer'.structural_pruning_switch # trainer.structural_pruning_switch
                     => /\ callback
                        /\ state.epoch >= args.structural_pruning_start_epoch
                        /\ trainer.use_structural_pruning
       ]_vars

\* the second train() call is in its first epoch, before the start epochs,
\* and both switches are still set
C17_Witness ==
    /\ args.pruning_start_epoch = 1 /\ args.structural_pruning_start_epoch = 1
    /\ state.trains = 2 /\ state.epoch = 0 /\ state.phase = "steps"
    /\ trainer.pruning_switch /\ trainer.structural_pruning_switch
    /\ trainer.mask_group0.activations = 1 /\ trainer.mask_group1.activations = 1

(* C18: distill_switch is scoped.  train() holds it True for the duration  *)
(* of training and sets it False on normal return; evaluate() runs the     *)
(* inner evaluation with it False and restores the value it had before the *)
(* call on normal return.  So while no call has raised, it is False        *)
(* outside train(), and an evaluate() nested inside train() leaves it True.*)
C18_DistillSwitchScoped ==
    /\ [](/\ (state.pc = "idle" /\ state.eval = "none" /\ ~state.raised)
                 => trainer.distill_switch = FALSE
          /\ (state.pc = "training" /\ state.eval = "none")
                 => trainer.distill_switch = TRUE
          /\ state.eval = "inner" => trainer.distill_switch = FALSE)
    /\ [][/\ (state.eval = "select" /\ state'.eval = "none" /\ state'.raised = state.raised)
                 => /\ trainer'.distill_switch = state.past_distill_switch
                    /\ state.pc = "training" => trainer'.distill_switch = TRUE
          /\ (state.eval = "none" /\ state'.eval = "inner")
                 => state'.past_distill_switch = trainer.distill_switch
          /\ (state.pc = "training" /\ state'.pc = "idle" /\ state'.raised = state.raised
              /\ state.eval = "none" /\ state.phase = "epoch_end")
                 => trainer'.distill_switch = FALSE
       ]_vars

\* two train() calls returned, an evaluate() nested in one of them captured
\* a checkpoint, and no call raised
C18_Witness ==
    /\ state.pc = "idle" /\ state.eval = "none" /\ ~state.raised
    /\ state.trains = 2
    /\ trainer.best_score # None
    /\ trainer.distill_switch = FALSE

(* C19: best-checkpoint tracking.  best_score and best_state_dict are      *)
(* replaced only by an evaluate() at local_rank 0 whose results hold the   *)
(* target score field, with the current sparsity minus target_sparsity at  *)
(* most 0.02, distill_switch True, and a score strictly greater than the   *)
(* stored best or no stored best; they are then replaced together by the   *)
(* new score and the current weights, and otherwise both are unchanged.    *)
(* So best_score never decreases, and train() at its end reloads           *)
(* best_state_dict into the model only if one was captured.                *)
C19_BestCheckpointTracking ==
    /\ []((trainer.best_score = None) <=> (trainer.best_state_dict = None))
    /\ [][LET better ==
                 /\ state.eval = "select"
                 /\ args.local_rank = 0
                 /\ trainer.target_score_field \in DOMAIN state.results
                 /\ state.sparsity - args.target_sparsity <= sparsity_eps
                 /\ trainer.distill_switch = TRUE
                 /\ \/ trainer.best_score = None
                    \/ state.results[trainer.target_score_field] > trainer.best_score
              returns == state.eval = "select" /\ state'.eval = "none"
                         /\ state'.raised = state.raised
              trainEnds == /\ state.pc = "training" /\ state'.pc = "idle"
                           /\ state.phase = "epoch_end" /\ state.eval = "none"
          IN  /\ (\/ trainer'.best_score # trainer.best_score
                  \/ trainer'.best_state_dict # trainer.best_state_dict)
                     => better /\ returns
              /\ (better /\ returns)
                     => /\ trainer'.best_score = state.results[trainer.target_score_field]
                        /\ trainer'.best_state_dict = trainer.weights
              /\ trainer.best_score # None
                     => trainer'.best_score # None
                        /\ trainer'.best_score >= trainer.best_score
              /\ trainEnds
                     => trainer'.weights = (IF trainer.best_state_dict # None
                                            THEN trainer.best_state_dict
                                            ELSE trainer.weights)
       ]_vars

\* train() returned after its first epoch scored best: the weights of that
\* epoch, not those of the last one, are in the model
C19_Witness ==
    /\ state.pc = "idle" /\ state.trains = 1 /\ state.steps = MaxEpoch
    /\ ~state.raised
    /\ trainer.best_score = MaxScore
    /\ trainer.best_state_dict = 1
    /\ trainer.weights = 1

(* C20: whatever args.target_score_field is, None or supplied, the         *)
(* constructed DistillTrainer has self.target_score_field defined, the     *)
(* dataset default when None and the supplied value otherwise, and an      *)
(* evaluate() at local_rank 0 reads it for the best-checkpoint selection   *)
(* without failing.                                                        *)
C20_TargetScoreFieldDefined ==
    /\ [](trainer.target_score_field =
              (IF args.target_score_field = "None"
               THEN field_dict[args.dataset_name]
               ELSE args.target_score_field))
    /\ [][(state.eval = "select" /\ args.local_rank = 0)
              => state'.eval = "none" /\ state'.raised = state.raised]_vars

=============================================================================
